---- MODULE Spec2Model ----
(***************************************************************************)
(* SymphoniaDecoder (decode_symphonia/src/lib.rs): the creek Decoder       *)
(* backed by a symphonia FormatReader and codec.                          *)
(*                                                                         *)
(* The file is a sequence of packets; packet i holds packets[i] frames.   *)
(* One channel is modelled (the code treats every channel alike).  The    *)
(* sample of file frame t (0-based) is the number t + 1, silence is 0,    *)
(* and the content a block holds before a decode call is negative.        *)
(***************************************************************************)
EXTENDS Integers, Sequences, FiniteSets, TLC

\* Bounds of the model.
MaxPackets == 3
MaxPacketFrames == 2
MaxBlockFrames == 2
MaxDecodes == 3
MaxFaultAt == 2
MaxClientSeeks == 3
MaxReads == 2
MaxCacheBlocks == 1
MaxLookAhead == 1
MaxServerPackets == 2
MaxServerFaultAt == 1

VARIABLES
    packets,                    \* the file: frames per packet (fixed once chosen)
    status,                     \* "closed" | "open" | "failed" (no decoder) |
                                \* "fatal" (a FatalError was returned) | "panicked"
    reader,                     \* index in packets of the packet next_packet returns next
    decode_buffer,              \* the written frames of the AudioBuffer (planes())
    decode_buffer_len,
    curr_decode_buffer_frame,
    num_frames,
    block_frames,
    playhead_frame,
    reset_decode_buffer,
    seek_delta,
    block,                      \* the block handed to the last decode call, after it
    prev_block,                 \* the block of the decode call before that one
    last,                       \* what the last call was and what it did
    run,                        \* the last reposition (open or seek) and the calls since
    server,                     \* the read server that owns the decoder
    channel,                    \* seek requests (client to server), statuses (server to client)
    client                      \* the ReadDiskStream on the real-time thread

vars == <<packets, status, reader, decode_buffer, decode_buffer_len,
          curr_decode_buffer_frame, num_frames, block_frames, playhead_frame,
          reset_decode_buffer, seek_delta, block, prev_block, last, run,
          server, channel, client>>

Min(a, b) == IF a < b THEN a ELSE b

----------------------------------------------------------------------------
(* The file and the symphonia reader / codec.                              *)

Files == UNION {[1..n -> 0..MaxPacketFrames] : n \in 0..MaxPackets}

RECURSIVE SumFrames(_, _)
SumFrames(p, n) == IF n = 0 THEN 0 ELSE p[n] + SumFrames(p, n - 1)

\* codec_params.n_frames of the track
TrackFrames(p) == SumFrames(p, Len(p))

\* timestamp of the first frame of packet i (i = Len(p) + 1: the end of the stream)
PacketTs(p, i) == SumFrames(p, i - 1)

\* Default::default() of f32 (line 251)
Silence == 0

\* the sample of file frame t
Sample(t) == t + 1

\* decoded.frames() samples of packet i, as decoder.decode returns them
Decoded(p, i) == [k \in 1..p[i] |-> Sample(PacketTs(p, i) + k - 1)]

\* FormatReader::seek(SeekMode::Accurate, ts): the packets the reader may land on;
\* res.actual_ts = PacketTs of the landing packet, never above ts.
Landings(p, ts) == {i \in 1..(Len(p) + 1) : PacketTs(p, i) <= ts}

\* Errors a call to reader.next_packet() (src "reader") or decoder.decode()
\* (src "codec") may report, besides the reader's UnexpectedEof at the end of the
\* stream: Error::DecodeError, Error::IoError of kind UnexpectedEof, any other
\* Error::IoError.
ReaderFaults == {"decode_error", "io_error"}
CodecFaults == {"decode_error", "unexpected_eof", "io_error"}
NoFault == [at |-> 0, src |-> "none", kind |-> "none"]
Faults ==
    {NoFault}
    \cup [at : 1..MaxFaultAt, src : {"reader"}, kind : ReaderFaults]
    \cup [at : 1..MaxFaultAt, src : {"codec"}, kind : CodecFaults]

\* the error of the k-th next_packet() (src "reader") or decode() (src "codec") of a call
FaultAt(fault, k, src) ==
    IF fault.at = k /\ fault.src = src THEN fault.kind ELSE "none"

\* an AudioBlock as the caller hands it in: arbitrary earlier content
PriorBlock(bf) == [i \in 1..bf |-> 0 - i]

----------------------------------------------------------------------------
(* SymphoniaDecoder::new                                                   *)

\* What may be wrong with the file handed to new: it cannot be opened, its
\* format is not recognised, the stream has no default track, the track's
\* codec_params hold no n_frames, no codec is registered for the track, the
\* codec_params hold no channels, the codec_params' channels are not those of
\* the decoded packets' signal spec.
OpenFlaws ==
    {"no_file", "no_format", "no_track", "no_n_frames", "no_codec",
     "no_channels", "channels_differ"}

\* lines 74-98: the error new returns before it touches the stream
EarlyOpenError(flaws) ==
    CASE "no_file" \in flaws -> "io_error"                \* line 74
      [] "no_format" \in flaws -> "unsupported"           \* line 84
      [] "no_track" \in flaws -> "NoDefaultTrack"         \* line 94
      [] "no_n_frames" \in flaws -> "NoNumFrames"         \* line 98
      [] OTHER -> "none"

\* lines 132-140 without the else arm: a missing channel count stays missing
ChannelsAfterPacket_NoFallback(channels) == channels

\* lines 132-140: whether the channel count is known (Some) after a packet
\* was decoded; a missing one is taken from the packet's signal spec
ChannelsAfterPacket(channels) == IF channels THEN channels ELSE TRUE

\* lines 127-165: decode packets until one reaches past the seek point.
\* o: [reader, delta, fetches, errs, res, len, channels, differ]
RECURSIVE NewLoop(_, _, _)
NewLoop(p, fault, o) ==
    LET k == o.fetches + 1
        o1 == [o EXCEPT !.fetches = k]
        r == IF FaultAt(fault, k, "reader") # "none" THEN FaultAt(fault, k, "reader")
             ELSE IF o.reader > Len(p) THEN "unexpected_eof" ELSE "none"
        c == FaultAt(fault, k, "codec")
    IN  IF r # "none"
        THEN [o1 EXCEPT !.res = "err", !.errs = @ \cup {<<"reader", r>>}]
        ELSE LET o2 == [o1 EXCEPT !.reader = @ + 1]
                 len == Len(Decoded(p, o.reader))
             IN  IF c = "decode_error"
                 THEN NewLoop(p, fault, [o2 EXCEPT !.delta = 0,
                                         !.errs = @ \cup {<<"codec", c>>}])
                 ELSE IF c # "none"
                 THEN [o2 EXCEPT !.res = "err", !.errs = @ \cup {<<"codec", c>>}]
                 ELSE IF o.channels /\ o.differ
                 THEN [o2 EXCEPT !.res = "panic"]        \* assert_eq!, line 133
                 ELSE LET o3 == [o2 EXCEPT !.channels = ChannelsAfterPacket(@)]
                      IN  IF o.delta < len
                          THEN [o3 EXCEPT !.res = "ok", !.len = len]
                          ELSE NewLoop(p, fault, [o3 EXCEPT !.delta = @ - len])

\* lines 100-113: the initial reader seek. A timestamp past the end of the track
\* is refused by the reader.
NewSeek(p, start_frame, landing, seek_fails) ==
    IF start_frame = 0
    THEN [res |-> "ok", reader |-> 1, delta |-> 0, seeks |-> 0]
    ELSE IF seek_fails \/ start_frame > TrackFrames(p)
    THEN [res |-> "err", reader |-> 1, delta |-> 0, seeks |-> 1]
    ELSE [res |-> "ok", reader |-> landing,
          delta |-> start_frame - PacketTs(p, landing), seeks |-> 1]

\* AudioBufferRef::make_equivalent (line 144): a buffer of the same spec and
\* capacity with no frame written.
MakeEquivalent(decoded) == << >>

\* the result of new when it returns before the first packet is read
NewFails(s, err) ==
    [res |-> "err", reader |-> s.reader, delta |-> 0, fetches |-> 0,
     errs |-> {err}, len |-> 0, seeks |-> s.seeks]

\* lines 57-200
New(p, flaws, start_frame, landing, seek_fails, fault) ==
    LET s == NewSeek(p, start_frame, landing, seek_fails)
    IN  IF EarlyOpenError(flaws) # "none"
        THEN NewFails([reader |-> 1, seeks |-> 0], <<"open", EarlyOpenError(flaws)>>)
        ELSE IF s.res = "err"
        THEN NewFails(s, <<"reader", "seek_error">>)
        ELSE IF "no_codec" \in flaws
        THEN NewFails(s, <<"open", "unsupported">>)               \* line 116
        ELSE LET o == NewLoop(p, fault,
                        [reader |-> s.reader, delta |-> s.delta, fetches |-> 0,
                         errs |-> {}, res |-> "run", len |-> 0,
                         channels |-> "no_channels" \notin flaws,
                         differ |-> "channels_differ" \in flaws])
                 r == [res |-> o.res, reader |-> o.reader, delta |-> o.delta,
                       fetches |-> o.fetches, errs |-> o.errs, len |-> o.len,
                       seeks |-> s.seeks]
             IN  IF o.res = "ok" /\ ~o.channels
                 THEN [r EXCEPT !.res = "err",                    \* line 172
                                !.errs = @ \cup {<<"open", "NoNumChannels">>}]
                 ELSE r

\* lines 174-179: the FileInfo returned with the decoder (one channel is modelled)
FileInfo(p) == [num_frames |-> TrackFrames(p), num_channels |-> 1]

Open ==
    /\ status = "closed"
    /\ \E start_frame \in 0..(TrackFrames(packets) + 1),
          bf \in 1..MaxBlockFrames,
          landing \in 1..(Len(packets) + 1),
          seek_fails \in BOOLEAN,
          fault \in Faults,
          flaws \in SUBSET OpenFlaws :
        /\ IF EarlyOpenError(flaws) # "none"      \* the stream is not touched
           THEN start_frame = 0 /\ landing = 1 /\ ~seek_fails /\ fault = NoFault
           ELSE IF start_frame = 0
           THEN landing = 1 /\ ~seek_fails        \* the reader is not called
           ELSE IF seek_fails \/ start_frame > TrackFrames(packets)
           THEN landing = 1 /\ fault = NoFault    \* the reader lands nowhere
           ELSE landing \in Landings(packets, start_frame)
        /\ \E o \in {New(packets, flaws, start_frame, landing, seek_fails, fault)} :
               /\ last' = [op |-> "open", arg |-> start_frame, res |-> o.res,
                           fetches |-> o.fetches, seeks |-> o.seeks, errs |-> o.errs,
                           eof |-> FALSE, pre |-> 0, absorbed |-> << >>,
                           copies |-> << >>, delta_pre |-> 0, flaws |-> flaws,
                           info |-> IF o.res = "ok" THEN {FileInfo(packets)} ELSE {}]
               /\ IF o.res = "ok"
                  THEN /\ status' = "open"
                       /\ reader' = o.reader
                       /\ decode_buffer' = MakeEquivalent(Decoded(packets, o.reader - 1))
                       /\ decode_buffer_len' = o.len
                       /\ curr_decode_buffer_frame' = o.delta
                       /\ num_frames' = TrackFrames(packets)
                       /\ block_frames' = bf
                       /\ playhead_frame' = start_frame
                       /\ reset_decode_buffer' = FALSE
                       /\ seek_delta' = 0
                       /\ run' = [op |-> "open", frame |-> start_frame,
                                  landing |-> o.reader - 1, n |-> 0,
                                  ok |-> TRUE, clean |-> o.errs = {}, fresh |-> TRUE,
                                  after_end |-> FALSE]
                  ELSE /\ status' = IF o.res = "panic" THEN "panicked" ELSE "failed"
                       /\ UNCHANGED <<reader, decode_buffer, decode_buffer_len,
                                      curr_decode_buffer_frame, num_frames, block_frames,
                                      playhead_frame, reset_decode_buffer, seek_delta, run>>
    /\ UNCHANGED <<packets, block, prev_block, server, channel, client>>

----------------------------------------------------------------------------
(* SymphoniaDecoder::seek                                                  *)

\* the fields of the decoder; fresh: the decode buffer was filled by open or by
\* a packet decoded since the last successful reader seek
Self ==
    [reader |-> reader, buf |-> decode_buffer, len |-> decode_buffer_len,
     curr |-> curr_decode_buffer_frame, playhead |-> playhead_frame,
     reset |-> reset_decode_buffer, delta |-> seek_delta, fresh |-> run.fresh]

\* the decoder's fields of a call's result
Fields(r) ==
    [reader |-> r.reader, buf |-> r.buf, len |-> r.len, curr |-> r.curr,
     playhead |-> r.playhead, reset |-> r.reset, delta |-> r.delta,
     fresh |-> r.fresh]

\* lines 203-208: a frame at or past the end of the file
SeekOutOfRange(frame) == frame >= num_frames

\* lines 202-245. The result carries the decoder's fields after the call.
SeekOp(self, frame, landing, seek_fails) ==
    IF SeekOutOfRange(frame)
    THEN [self EXCEPT !.playhead = num_frames]
             @@ [res |-> "ok", seeks |-> 0]
    ELSE LET s1 == [self EXCEPT !.playhead = frame]
         IN  IF seek_fails
             THEN s1 @@ [res |-> "err", seeks |-> 1]
             ELSE [s1 EXCEPT !.reader = landing,
                             !.delta = frame - PacketTs(packets, landing),
                             !.reset = TRUE,
                             !.curr = 0,
                             !.fresh = FALSE]
                      @@ [res |-> "ok", seeks |-> 1]

Seek ==
    /\ status = "open"
    /\ \E frame \in 0..(num_frames + 1),
          landing \in 1..(Len(packets) + 1),
          seek_fails \in BOOLEAN :
        /\ IF frame >= num_frames
           THEN landing = 1 /\ ~seek_fails        \* the reader is not called
           ELSE IF seek_fails THEN landing = 1    \* the reader lands nowhere
           ELSE landing \in Landings(packets, frame)
        /\ \E s \in {SeekOp(Self, frame, landing, seek_fails)} :
               /\ reader' = s.reader
               /\ decode_buffer' = s.buf
               /\ decode_buffer_len' = s.len
               /\ curr_decode_buffer_frame' = s.curr
               /\ playhead_frame' = s.playhead
               /\ reset_decode_buffer' = s.reset
               /\ seek_delta' = s.delta
               /\ last' = [op |-> "seek", arg |-> frame, res |-> s.res,
                           fetches |-> 0, seeks |-> s.seeks,
                           errs |-> IF s.res = "err"
                                    THEN {<<"reader", "seek_error">>} ELSE {},
                           eof |-> FALSE, pre |-> 0, absorbed |-> << >>,
                           copies |-> << >>, delta_pre |-> 0, flaws |-> {},
                           info |-> {}]
               /\ status' = IF s.res = "err" THEN "fatal" ELSE status
               /\ run' = [op |-> "seek", frame |-> frame,
                          landing |-> IF s.seeks = 1 /\ s.res = "ok" THEN landing ELSE 0,
                          n |-> 0, ok |-> s.res = "ok", clean |-> s.res = "ok",
                          fresh |-> s.fresh,
                          after_end |-> run.op = "seek" /\ run.frame >= num_frames]
    /\ block' = << >>
    /\ prev_block' = << >>
    /\ UNCHANGED <<packets, num_frames, block_frames, server, channel, client>>

----------------------------------------------------------------------------
(* SymphoniaDecoder::decode                                                *)

\* line 248 with > for >=: a playhead exactly at the end goes on to read packets
AtEndOfFile_PastOnly(playhead) == playhead > num_frames

\* line 248
AtEndOfFile(playhead) == playhead >= num_frames

\* lines 250-252
EofFill(blk) == [i \in 1..Len(blk) |-> Silence]

\* lines 261-269
NumFramesToCpy(d) ==
    IF d.reset THEN 0 ELSE Min(block_frames - d.bsf, d.len - d.curr)

\* what a copy of n frames reads and writes, the state it is made in, and
\* whether it is carried out (done) or panics
Copied(d, n) ==
    [from |-> d.curr, to |-> d.bsf, n |-> n, len |-> d.len, held |-> Len(d.buf),
     delta |-> d.delta, fresh |-> d.fresh, done |-> d.curr + n <= Len(d.buf)]

\* lines 272-287: copy n frames of the decode buffer into the block. The planes
\* of the decode buffer are as long as the frames written to it; a range past
\* them panics.
CopyFrames(d, n) ==
    IF d.curr + n > Len(d.buf)
    THEN [d EXCEPT !.res = "panic", !.copies = Append(@, Copied(d, n))]
    ELSE [d EXCEPT
            !.copies = Append(@, Copied(d, n)),
            !.blk = [i \in 1..Len(d.blk) |->
                        IF i > d.bsf /\ i <= d.bsf + n
                        THEN d.buf[d.curr + (i - d.bsf)]
                        ELSE d.blk[i]],
            !.bsf = @ + n,
            !.curr = @ + n,
            !.reset = IF d.curr + n >= d.len THEN TRUE ELSE @]

\* lines 296-315: a decoded packet against the pending seek delta
Absorb(d, decoded) ==
    IF d.delta < Len(decoded)
    THEN [d EXCEPT !.delta = 0, !.len = Len(decoded), !.buf = decoded,
                   !.curr = d.delta, !.fresh = TRUE]
    ELSE [d EXCEPT !.delta = @ - Len(decoded)]

\* what a decoded packet met and what became of it; exposed: the packet was
\* converted into the decode buffer
Absorbed(d, decoded) ==
    [n |-> d.delta, p |-> Len(decoded), after |-> Absorb(d, decoded).delta,
     offset |-> Absorb(d, decoded).curr,
     exposed |-> Absorb([d EXCEPT !.fresh = FALSE], decoded).fresh]

\* lines 329-342: which errors of reader.next_packet() end the call with Err
ReaderErrorIsFatal(kind) == kind # "unexpected_eof"

\* lines 317-326 without the DecodeError arm: every error of the codec is fatal
CodecErrorIsFatal_Always(kind) == TRUE

\* lines 317-326: which errors of decoder.decode() end the call with Err
CodecErrorIsFatal(kind) == kind # "decode_error"

\* lines 291-344: the inner loop, until a packet is decoded or the call ends
RECURSIVE FetchLoop(_, _, _)
FetchLoop(p, fault, d) ==
    LET k == d.fetches + 1
        d1 == [d EXCEPT !.fetches = k]
        r == IF FaultAt(fault, k, "reader") # "none" THEN FaultAt(fault, k, "reader")
             ELSE IF d.reader > Len(p) THEN "unexpected_eof" ELSE "none"
        c == FaultAt(fault, k, "codec")
    IN  IF r # "none"
        THEN IF ReaderErrorIsFatal(r)
             THEN [d1 EXCEPT !.res = "err", !.errs = @ \cup {<<"reader", r>>}]
             ELSE [d1 EXCEPT !.eof = TRUE, !.bsf = block_frames,
                             !.errs = @ \cup {<<"reader", r>>}]
        ELSE LET d2 == [d1 EXCEPT !.reader = @ + 1]
             IN  IF c # "none"
                 THEN IF CodecErrorIsFatal(c)
                      THEN [d2 EXCEPT !.res = "err", !.errs = @ \cup {<<"codec", c>>}]
                      ELSE FetchLoop(p, fault,
                                     [d2 EXCEPT !.errs = @ \cup {<<"codec", c>>}])
                 ELSE [Absorb(d2, Decoded(p, d.reader)) EXCEPT
                         !.absorbed = Append(@, Absorbed(d2, Decoded(p, d.reader)))]

\* lines 259-346: the outer loop
RECURSIVE DecodeLoop(_, _, _)
DecodeLoop(p, fault, d) ==
    IF d.res # "run" THEN d
    ELSE IF ~(d.bsf < block_frames) THEN [d EXCEPT !.res = "ok"]
    ELSE IF ~d.reset /\ d.curr > d.len
    THEN [d EXCEPT !.res = "panic"]      \* usize subtraction below zero
    ELSE LET n == NumFramesToCpy(d)
             d1 == [d EXCEPT !.reset = FALSE]
         IN  IF n # 0
             THEN DecodeLoop(p, fault, CopyFrames(d1, n))
             ELSE DecodeLoop(p, fault, FetchLoop(p, fault, d1))

\* lines 348-352
AdvancePlayhead(d) ==
    IF d.eof THEN num_frames ELSE d.playhead + block_frames

\* lines 247-355
DecodeOp(self, blk, fault) ==
    LET d0 == self @@ [bsf |-> 0, blk |-> blk, fetches |-> 0, errs |-> {},
                       eof |-> FALSE, res |-> "run", absorbed |-> << >>,
                       copies |-> << >>]
    IN  IF AtEndOfFile(self.playhead)
        THEN [d0 EXCEPT !.blk = EofFill(blk), !.res = "ok"]
        ELSE LET d == DecodeLoop(packets, fault, d0)
             IN  IF d.res = "ok"
                 THEN [d EXCEPT !.playhead = AdvancePlayhead(d)]
                 ELSE d

Decode ==
    /\ status = "open"
    /\ run.n < MaxDecodes
    /\ \E fault \in Faults :
        \E d \in {DecodeOp(Self, PriorBlock(block_frames), fault)} :
            /\ reader' = d.reader
            /\ decode_buffer' = d.buf
            /\ decode_buffer_len' = d.len
            /\ curr_decode_buffer_frame' = d.curr
            /\ playhead_frame' = d.playhead
            /\ reset_decode_buffer' = d.reset
            /\ seek_delta' = d.delta
            /\ block' = d.blk
            /\ prev_block' = block
            /\ status' = CASE d.res = "panic" -> "panicked"
                             [] d.res = "err" -> "fatal"
                             [] OTHER -> status
            /\ last' = [op |-> "decode", arg |-> 0, res |-> d.res,
                        fetches |-> d.fetches, seeks |-> 0, errs |-> d.errs,
                        eof |-> d.eof, pre |-> playhead_frame,
                        absorbed |-> d.absorbed, copies |-> d.copies,
                        delta_pre |-> seek_delta, flaws |-> {}, info |-> {}]
            /\ run' = [run EXCEPT !.n = @ + 1,
                                  !.fresh = d.fresh,
                                  !.ok = @ /\ d.res = "ok",
                                  !.clean = @ /\ d.errs \subseteq
                                                   {<<"reader", "unexpected_eof">>}]
    /\ UNCHANGED <<packets, num_frames, block_frames, server, channel, client>>

----------------------------------------------------------------------------

\* line 53 with a default that retains blocks
DEFAULT_NUM_CACHE_BLOCKS_Caching == MaxCacheBlocks

\* line 53
DEFAULT_NUM_CACHE_BLOCKS == 0

\* before ReadDiskStream::open
NoServer ==
    [state |-> "down", pos |-> 0, buffering |-> FALSE, cache |-> << >>,
     num_cache_blocks |-> 0, fatals |-> 0, clean |-> TRUE,
     did |-> [op |-> "none", cached |-> FALSE, seek_calls |-> 0, decode_calls |-> 0,
              res |-> "ok"]]
NoChannel == [seek |-> {}, status |-> << >>, blocks |-> << >>]
NoClient ==
    [ready |-> FALSE, requested |-> 0, seeks |-> 0, burst |-> 0, settled |-> FALSE,
     first |-> << >>, reads |-> 0, fatals |-> 0]
\* client.first: the first block read since the last seek request;
\* client.burst: the requests sent since the server last took one;
\* client.settled: when the first of them was sent the server had answered
\* every earlier request and the client had taken every status

Init ==
    /\ packets \in Files
    /\ status = "closed"
    /\ reader = 1
    /\ decode_buffer = << >>
    /\ decode_buffer_len = 0
    /\ curr_decode_buffer_frame = 0
    /\ num_frames = 0
    /\ block_frames = 1
    /\ playhead_frame = 0
    /\ reset_decode_buffer = FALSE
    /\ seek_delta = 0
    /\ block = << >>
    /\ prev_block = << >>
    /\ last = [op |-> "none", arg |-> 0, res |-> "ok", fetches |-> 0, seeks |-> 0,
               errs |-> {}, eof |-> FALSE, pre |-> 0, absorbed |-> << >>,
               copies |-> << >>, delta_pre |-> 0, flaws |-> {}, info |-> {}]
    /\ run = [op |-> "none", frame |-> 0, landing |-> 0, n |-> 0,
              ok |-> TRUE, clean |-> TRUE, fresh |-> TRUE, after_end |-> FALSE]
    /\ server = NoServer
    /\ channel = NoChannel
    /\ client = NoClient

Next == Open \/ Seek \/ Decode

Spec == Init /\ [][Next]_vars

----------------------------------------------------------------------------
(* The read server and its client, ReadDiskStream (spec sections 3, 4.2,   *)
(* 4.3 and 5), around the decoder above.  The look-ahead queue is the      *)
(* bounded queue the client reads from; the server alone fills and         *)
(* discards it.  The hand-over of the head block, with its copy into the   *)
(* cache ring, and the client's read of it are one step.                   *)

\* the frames of the blocks b.start_frame covers
Covers(b, f) == b.start_frame <= f /\ f < b.start_frame + block_frames

\* section 4.3, 1: the target frame's block is present in the cache
CachedAt(cache, f) == {j \in 1..Len(cache) : Covers(cache[j], f)}

\* section 4.3, 1
CacheHit(cache, f) == CachedAt(cache, f) # {}

\* section 4.3, 1: the cached block of frame f and the cached blocks after it
\* that continue it frame by frame
RECURSIVE Promoted(_, _)
Promoted(cache, j) ==
    IF j < Len(cache) /\ cache[j + 1].start_frame = cache[j].start_frame + block_frames
    THEN <<cache[j]>> \o Promoted(cache, j + 1)
    ELSE <<cache[j]>>

\* the frame after the last frame of a queue of blocks
EndOf(blocks) == Min(blocks[Len(blocks)].start_frame + block_frames, num_frames)

\* section 4.3, 1: the look-ahead queue after the cached blocks from slot j on
\* were promoted into it; blocks of the queue that do not continue them are stale
Promote(cache, j, look_ahead) ==
    IF look_ahead # << >> /\ look_ahead[1].start_frame = EndOf(Promoted(cache, j))
    THEN Promoted(cache, j) \o look_ahead
    ELSE Promoted(cache, j)

\* section 3, CacheSlot: a fixed-capacity ring, the oldest block evicted first
CachePut(cache, b, capacity) ==
    LET kept == SelectSeq(cache, LAMBDA c : c.start_frame # b.start_frame)
        all == kept \o <<b>>
    IN  IF capacity = 0 THEN << >>
        ELSE IF Len(all) > capacity THEN SubSeq(all, Len(all) - capacity + 1, Len(all))
        ELSE all

\* section 4.3: decode the next block of the look-ahead queue, at frame pos.
\* A decoder that stands elsewhere (after blocks were promoted from the cache)
\* is first moved there.
ServerFill(self, pos, landing, seek_fails, fault) ==
    IF self.playhead = pos
    THEN DecodeOp(self, PriorBlock(block_frames), fault) @@ [seeks |-> 0]
    ELSE LET s == SeekOp(self, pos, landing, seek_fails)
         IN  IF s.res = "err"
             THEN s @@ [blk |-> << >>, fetches |-> 0, errs |-> {}, eof |-> FALSE, bsf |-> 0]
             ELSE DecodeOp(Fields(s), PriorBlock(block_frames), fault) @@ [seeks |-> 1]

\* the files and the faults of the server's runs
ServerFiles == {p \in Files : Len(p) <= MaxServerPackets}
ServerFaults == {f \in Faults : f.at <= MaxServerFaultAt}

\* the decoder's fields as a call leaves them
SetDecoder(d) ==
    /\ reader' = d.reader
    /\ decode_buffer' = d.buf
    /\ decode_buffer_len' = d.len
    /\ curr_decode_buffer_frame' = d.curr
    /\ playhead_frame' = d.playhead
    /\ reset_decode_buffer' = d.reset
    /\ seek_delta' = d.delta

Send(msg) == [channel EXCEPT !.status = Append(@, msg)]

\* section 4.2: ReadDiskStream::open spawns the server, which owns the decoder
ServerOpen ==
    /\ status = "closed"
    /\ \E bf \in 1..MaxBlockFrames,
          ncb \in {DEFAULT_NUM_CACHE_BLOCKS, MaxCacheBlocks} :
        \E o \in {New(packets, {}, 0, 1, FALSE, NoFault)} :
            IF o.res = "ok"
            THEN /\ status' = "open"
                 /\ reader' = o.reader
                 /\ decode_buffer' = MakeEquivalent(Decoded(packets, o.reader - 1))
                 /\ decode_buffer_len' = o.len
                 /\ curr_decode_buffer_frame' = o.delta
                 /\ num_frames' = TrackFrames(packets)
                 /\ block_frames' = bf
                 /\ playhead_frame' = 0
                 /\ reset_decode_buffer' = FALSE
                 /\ seek_delta' = 0
                 /\ server' = [NoServer EXCEPT !.state = "running", !.buffering = TRUE,
                                               !.num_cache_blocks = ncb]
            ELSE /\ status' = "failed"
                 /\ UNCHANGED <<reader, decode_buffer, decode_buffer_len,
                                curr_decode_buffer_frame, num_frames, block_frames,
                                playhead_frame, reset_decode_buffer, seek_delta, server>>
    /\ UNCHANGED <<packets, block, prev_block, last, run, channel, client>>

\* section 4.2, seek: the request takes the single slot, whatever it holds, and
\* the client is not ready until the server signals Ready again
ClientSeek ==
    /\ server.state # "down"
    /\ client.seeks < MaxClientSeeks
    /\ \E f \in 0..num_frames :
        /\ channel' = [channel EXCEPT !.seek = {f}]
        /\ client' = [client EXCEPT !.ready = FALSE, !.requested = f, !.seeks = @ + 1,
                                    !.burst = IF channel.seek # {} THEN @ + 1 ELSE 1,
                                    !.settled = IF channel.seek # {} THEN @
                                                ELSE channel.status = << >>
                                                     /\ ~server.buffering,
                                    !.first = << >>]
    /\ UNCHANGED <<packets, status, reader, decode_buffer, decode_buffer_len,
                   curr_decode_buffer_frame, num_frames, block_frames, playhead_frame,
                   reset_decode_buffer, seek_delta, block, prev_block, last, run, server>>

\* section 4.3 with the loop left running after a FatalError
OnFatalError_KeepsRunning(srv) == [srv EXCEPT !.fatals = @ + 1]

\* section 4.3: a FatalError of the decoder ends the server loop
OnFatalError(srv) == [srv EXCEPT !.state = "stopped", !.fatals = @ + 1]

\* what the server did with request rq when it called Decoder::seek
Did(rq, s) ==
    [op |-> "seek", cached |-> CachedAt(server.cache, rq) # {},
     seek_calls |-> 1, decode_calls |-> 0, res |-> s.res]

\* section 4.3, on seek
ServerSeek ==
    /\ server.state = "running"
    /\ \E rq \in channel.seek :
        IF CacheHit(server.cache, rq)
        THEN \E j \in CachedAt(server.cache, rq) :
               /\ \A k \in CachedAt(server.cache, rq) : k <= j
               /\ server' = [server EXCEPT !.buffering = FALSE,
                                           !.pos = EndOf(Promote(server.cache, j,
                                                                 channel.blocks)),
                                           !.did = [op |-> "seek", cached |-> TRUE,
                                                    seek_calls |-> 0, decode_calls |-> 0,
                                                    res |-> "ok"]]
               /\ channel' = [Send("Ready") EXCEPT
                                 !.seek = {},
                                 !.blocks = Promote(server.cache, j, channel.blocks)]
               /\ UNCHANGED <<status, reader, decode_buffer, decode_buffer_len,
                              curr_decode_buffer_frame, playhead_frame,
                              reset_decode_buffer, seek_delta>>
        ELSE \E landing \in 1..(Len(packets) + 1), seek_fails \in BOOLEAN :
               /\ IF rq >= num_frames
                  THEN landing = 1 /\ ~seek_fails
                  ELSE IF seek_fails THEN landing = 1
                  ELSE landing \in Landings(packets, rq)
               /\ \E s \in {SeekOp(Self, rq, landing, seek_fails)} :
                      /\ SetDecoder(s)
                      /\ IF s.res = "ok"
                         THEN /\ server' = [server EXCEPT
                                                          !.buffering = TRUE,
                                                          !.pos = Min(rq, num_frames),
                                                          !.clean = TRUE,
                                                          !.did = Did(rq, s)]
                              /\ channel' = [channel EXCEPT !.seek = {}, !.blocks = << >>]
                              /\ status' = status
                         ELSE /\ server' = [OnFatalError(server) EXCEPT
                                                          !.did = Did(rq, s)]
                              /\ channel' = [Send("FatalError") EXCEPT !.seek = {}]
                              /\ status' = "fatal"
    /\ UNCHANGED <<packets, num_frames, block_frames, block, prev_block, last, run, client>>

\* section 4.3: while the look-ahead queue has spare capacity, decode the next
\* block and enqueue it
ServerDecode ==
    /\ server.state = "running"
    /\ Len(channel.blocks) < MaxLookAhead
    /\ server.pos < num_frames \/ channel.blocks = << >>
    /\ \E fault \in ServerFaults, landing \in 1..(Len(packets) + 1),
          seek_fails \in BOOLEAN :
        /\ IF playhead_frame = server.pos \/ server.pos >= num_frames
           THEN landing = 1 /\ ~seek_fails
           ELSE IF seek_fails THEN landing = 1 /\ fault = NoFault
           ELSE landing \in Landings(packets, server.pos)
        /\ \E d \in {ServerFill(Self, server.pos, landing, seek_fails, fault)} :
             /\ SetDecoder(d)
             /\ status' = CASE d.res = "panic" -> "panicked"
                              [] d.res = "err" -> "fatal"
                              [] OTHER -> status
             /\ server' = [(IF d.res = "err" THEN OnFatalError(server) ELSE server)
                           EXCEPT
                              !.did = [op |-> "fill", cached |-> FALSE,
                                       seek_calls |-> d.seeks,
                                       decode_calls |-> IF seek_fails THEN 0 ELSE 1,
                                       res |-> d.res],
                              !.state = IF d.res = "panic" THEN "panicked" ELSE @,
                              !.clean = (IF d.seeks = 1 THEN TRUE ELSE @)
                                           /\ <<"codec", "decode_error">> \notin d.errs,
                              !.buffering = IF d.res = "ok" THEN FALSE ELSE @,
                              !.pos = IF d.res = "ok"
                                      THEN Min(@ + block_frames, num_frames) ELSE @]
             /\ channel' =
                    CASE d.res = "ok" ->
                           [(IF server.buffering
                             THEN Send("Ready")
                             ELSE channel)
                            EXCEPT !.blocks = Append(@, [start_frame |-> server.pos,
                                                          data |-> d.blk,
                                                          clean |-> server'.clean])]
                      [] d.res = "err" -> Send("FatalError")
                      [] OTHER -> channel
    /\ UNCHANGED <<packets, num_frames, block_frames, block, prev_block, last, run, client>>

\* the client takes the next status off the status channel
ClientPoll ==
    /\ channel.status # << >>
    /\ channel' = [channel EXCEPT !.status = Tail(@)]
    /\ client' = IF Head(channel.status) = "Ready"
                 THEN [client EXCEPT !.ready = TRUE]
                 ELSE [client EXCEPT !.ready = FALSE, !.fatals = @ + 1]
    /\ UNCHANGED <<packets, status, reader, decode_buffer, decode_buffer_len,
                   curr_decode_buffer_frame, num_frames, block_frames, playhead_frame,
                   reset_decode_buffer, seek_delta, block, prev_block, last, run, server>>

\* section 4.2, read: the next block of the look-ahead queue, if the client is
\* ready and there is one; the block goes into the cache ring on its way
ClientRead ==
    /\ client.ready
    /\ client.reads < MaxReads
    /\ channel.blocks # << >>
    /\ channel' = [channel EXCEPT !.blocks = Tail(@)]
    /\ server' = [server EXCEPT !.cache = CachePut(@, Head(channel.blocks),
                                                   server.num_cache_blocks)]
    /\ client' = [client EXCEPT !.reads = @ + 1,
                                !.first = IF @ = << >> THEN <<Head(channel.blocks)>>
                                          ELSE @]
    /\ UNCHANGED <<packets, status, reader, decode_buffer, decode_buffer_len,
                   curr_decode_buffer_frame, num_frames, block_frames, playhead_frame,
                   reset_decode_buffer, seek_delta, block, prev_block, last, run>>

ServerNext ==
    ServerOpen \/ ClientSeek \/ ServerSeek \/ ServerDecode \/ ClientPoll \/ ClientRead

ServerInit == Init /\ packets \in ServerFiles

ServerSpec == ServerInit /\ [][ServerNext]_vars

----------------------------------------------------------------------------
(* Properties.                                                             *)

\* the samples a block starting at file frame t must hold at index i
\* (frames of the file, as far as the file reaches)
FrameAt(t, i) == Sample(t + i - 1)

SilentBlock == [i \in 1..block_frames |-> Silence]

\* the last call was a decode that returned Ok, every call since the last
\* reposition returned Ok, and no packet was dropped by an error
CleanDecode == last.op = "decode" /\ last.res = "ok" /\ run.ok /\ run.clean

\* C1: after seek(f) returns Ok with f < num_frames, whatever packet the reader
\* landed on, the next decode writes a block whose index 0 is file frame f and
\* whose following samples are the following frames of the file.
C1_SeekThenDecodeStartsAtFrame ==
    (CleanDecode /\ run.op = "seek" /\ run.n = 1 /\ run.frame < num_frames)
        => \A i \in 1..block_frames :
              run.frame + i - 1 < num_frames => block[i] = FrameAt(run.frame, i)

\* C2: a decode called while playhead_frame >= num_frames returns Ok, sets every
\* sample of the block to zero, reads no packet and leaves playhead_frame
\* unchanged, however often it is repeated.
C2_DecodeAtEndOfFile ==
    (last.op = "decode" /\ last.pre >= num_frames)
        => /\ last.res = "ok"
           /\ block = SilentBlock
           /\ last.fetches = 0
           /\ playhead_frame = last.pre

\* C2's case: a second decode in a row at the end of a file that has frames
C2_Witness ==
    /\ last.op = "decode" /\ last.pre >= num_frames /\ num_frames > 0
    /\ run.n >= 2 /\ prev_block = SilentBlock /\ block = SilentBlock

\* C3: in a run of successful decodes with no seek in between and none reaching
\* the end of the file, every block holds block_frames consecutive frames and
\* starts at the frame after the last frame of the block before it.
C3_BlocksAreContiguous ==
    (CleanDecode /\ run.n >= 2 /\ ~last.eof /\ last.pre < num_frames
        /\ playhead_frame <= num_frames)
        => /\ Len(block) = block_frames
           /\ block[1] = prev_block[block_frames] + 1
           /\ \A i \in 1..(block_frames - 1) : block[i + 1] = block[i] + 1

\* C4: after open succeeds with start_frame = s < num_frames, the first decode
\* emits the file frames [s, s + block_frames) from block index 0 on.
C4_FirstDecodeAfterOpen ==
    (last.op = "decode" /\ run.op = "open" /\ run.n = 1 /\ run.clean
        /\ run.frame < num_frames)
        => /\ last.res = "ok"
           /\ \A i \in 1..block_frames :
                 run.frame + i - 1 < num_frames => block[i] = FrameAt(run.frame, i)

\* C5: after a successful open or seek to t < num_frames and k successful
\* decodes with no seek in between,
\* playhead_frame = min(t + k * block_frames, num_frames).
C5_PlayheadFollowsBlocks ==
    (CleanDecode /\ run.n >= 1 /\ run.frame < num_frames)
        => playhead_frame = Min(run.frame + run.n * block_frames, num_frames)

\* the block of the first decode after seek(f) landing on packet l, from the
\* decoder fields s
BlockAfterSeek(s, f, l) ==
    DecodeOp(Fields(SeekOp(s, f, l, FALSE)), PriorBlock(block_frames), NoFault)

\* C6: the output after seek(f) does not depend on what was decoded or buffered
\* before it: seek(f), decode gives the block that seek(f), decode, seek(f),
\* decode gives.
C6_SeekIsHistoryIndependent ==
    status = "open"
        => \A f \in 0..(num_frames - 1) : \A l \in Landings(packets, f) :
              LET d1 == BlockAfterSeek(Self, f, l)
                  d2 == BlockAfterSeek(Fields(d1), f, l)
              IN  (d1.res = "ok" /\ d2.res = "ok") => d1.blk = d2.blk

\* C7: in every state of a decoder playhead_frame <= num_frames.
C7_PlayheadNeverPastEnd ==
    status \in {"open", "fatal", "panicked"} => playhead_frame <= num_frames

\* C8: a decode that starts before the end of the file and runs out of packets
\* before the block is full returns Ok with playhead_frame = num_frames, the
\* leading samples being the remaining frames of the file and every position
\* at or past frame num_frames being silence.
C8_TailOfLastBlockIsSilence ==
    (CleanDecode /\ last.eof /\ last.pre < num_frames
        /\ num_frames - last.pre < block_frames)
        => /\ playhead_frame = num_frames
           /\ \A i \in 1..block_frames :
                 block[i] = IF last.pre + i - 1 < num_frames
                            THEN FrameAt(last.pre, i) ELSE Silence

\* C9: opening a file of zero frames whose reader yields no packet succeeds.
C9_ZeroFrameFileOpens ==
    (last.op = "open" /\ packets = << >> /\ last.arg = 0
        /\ last.errs \subseteq {<<"reader", "unexpected_eof">>})
        => status = "open"

\* the errors the code treats as fatal
FatalReported(errs) ==
    \E e \in errs : \/ e[1] = "reader" /\ e[2] # "unexpected_eof"
                    \/ e[1] = "codec" /\ e[2] # "decode_error"

\* C10 as stated: decode returns Err exactly when the reader or the codec
\* reports an error that is neither a DecodeError nor an UnexpectedEof I/O error.
C10_ErrExactlyOnOtherErrors ==
    last.op = "decode"
        => (last.res = "err"
               <=> \E e \in last.errs : e[2] \notin {"decode_error", "unexpected_eof"})

\* C10 amended: decode returns Err exactly when the reader reports an error
\* other than an UnexpectedEof I/O error or the codec reports an error other
\* than a DecodeError; after a DecodeError of the codec the same call goes on
\* to the next packet; the reader's UnexpectedEof ends the call with Ok and
\* playhead_frame = num_frames; a call asks the reader for at most one packet
\* more than the file holds.
C10_FatalErrors ==
    last.op = "decode"
        => /\ last.res = "err" <=> FatalReported(last.errs)
           /\ last.fetches <= Len(packets) + 1
           /\ (<<"codec", "decode_error">> \in last.errs)
                 => last.fetches >= 2
           /\ (<<"reader", "unexpected_eof">> \in last.errs /\ ~FatalReported(last.errs))
                 => last.res = "ok" /\ playhead_frame = num_frames

\* C10's case: a decode that dropped a packet on a DecodeError and returned Ok
\* at the end of the file
C10_Witness ==
    /\ last.op = "decode" /\ last.res = "ok"
    /\ last.errs = {<<"codec", "decode_error">>, <<"reader", "unexpected_eof">>}
    /\ playhead_frame = num_frames

\* the flaws after which new stops before it touches the stream
EarlyFlaws == {"no_file", "no_format", "no_track", "no_n_frames"}

\* C11 as stated: open returns an OpenError and no decoder when the file cannot
\* be opened, the format is not recognised, the stream has no default track,
\* the track's frame count is missing or the track's channel count is missing;
\* a decoder and its FileInfo are returned only when both counts are known.
C11_OpenErrorOnMissingCounts ==
    last.op = "open"
        => /\ (last.flaws \cap (EarlyFlaws \cup {"no_channels"}) # {})
                 => last.res = "err" /\ status = "failed" /\ last.info = {}
           /\ last.info # {} => status = "open"

\* C11 amended: open returns an OpenError and no decoder, without reading the
\* stream, when the file cannot be opened, the format is not recognised, the
\* stream has no default track or the track's frame count is missing; a
\* channel count missing from the track is taken from the first decoded packet
\* and is no error; a decoder is returned exactly with a FileInfo, which holds
\* the track's frame count and a channel count.
C11_OpenErrors ==
    last.op = "open"
        => /\ (last.flaws \cap EarlyFlaws # {})
                 => /\ last.res = "err" /\ status = "failed" /\ last.info = {}
                    /\ last.fetches = 0 /\ last.seeks = 0
           /\ last.info # {} <=> status = "open"
           /\ status = "open" <=> last.res = "ok"
           /\ status = "open"
                 => /\ last.info = {[num_frames |-> num_frames, num_channels |-> 1]}
                    /\ num_frames = TrackFrames(packets)
           /\ <<"open", "NoNumChannels">> \notin last.errs
           /\ (last.flaws = {"no_channels"} /\ last.errs = {}) => status = "open"

\* C11's case: a track without a channel count is opened
C11_Witness ==
    /\ last.op = "open" /\ last.flaws = {"no_channels"}
    /\ status = "open" /\ last.info # {} /\ last.fetches >= 1

FatalInFlight ==
    Cardinality({i \in 1..Len(channel.status) : channel.status[i] = "FatalError"})

\* C13: when Decoder::decode or Decoder::seek returns a FatalError the server
\* sends exactly one FatalError status and stops; from then on it places no
\* block on the block channel, sends no status and calls the decoder no more.
C13_FatalErrorStopsServer ==
    /\ [](/\ server.did.res = "err" <=> server.state = "stopped"
          /\ server.state = "stopped" <=> server.fatals = 1
          /\ FatalInFlight + client.fatals = server.fatals)
    /\ [][server.state = "stopped"
            => /\ server'.state = "stopped" /\ server'.did = server.did
               /\ server'.fatals = server.fatals
               /\ Len(channel'.blocks) <= Len(channel.blocks)
               /\ Len(channel'.status) <= Len(channel.status)
               /\ <<reader, decode_buffer, curr_decode_buffer_frame, playhead_frame,
                     reset_decode_buffer, seek_delta>>'
                    = <<reader, decode_buffer, curr_decode_buffer_frame, playhead_frame,
                        reset_decode_buffer, seek_delta>>]_vars

\* C13's case: the client has taken the FatalError status of a stopped server
\* and asked for a seek that is never served
C13_Witness ==
    /\ server.state = "stopped" /\ client.fatals = 1 /\ channel.seek # {}
    /\ channel.status = << >>

\* C14: after several seek requests sent to a settled server before it
\* processed any of them, and the Ready that follows, the first block the
\* client reads holds the last requested frame, as the file has it.
C14_LastSeekWins ==
    (client.first # << >> /\ client.burst >= 2 /\ client.settled
        /\ client.first[1].clean)
        => /\ Covers(client.first[1], client.requested)
           /\ client.requested < num_frames
                 => client.first[1].data[client.requested
                                           - client.first[1].start_frame + 1]
                      = Sample(client.requested)

\* C15: for every packet a decode call decodes, with n the delta before it and
\* p its frames: if n >= p the delta becomes n - p and no frame of the packet
\* is exposed, if n < p the delta becomes 0 and exposure starts at offset n of
\* the packet; the delta is never negative, does not increase between seeks,
\* and is 0 whenever frames are copied to the block.
C15_SeekDeltaAbsorption ==
    /\ seek_delta >= 0
    /\ last.op = "decode"
          => /\ \A i \in 1..Len(last.absorbed) :
                   LET a == last.absorbed[i]
                   IN  IF a.n >= a.p
                       THEN a.after = a.n - a.p /\ ~a.exposed
                       ELSE a.after = 0 /\ a.exposed /\ a.offset = a.n
             /\ seek_delta <= last.delta_pre
             /\ \A i \in 1..Len(last.copies) :
                   last.copies[i].done => last.copies[i].delta = 0

\* C16: seek(frame) with frame >= num_frames returns Ok, sets playhead_frame to
\* num_frames, does not call the reader's seek and leaves seek_delta,
\* reset_decode_buffer, curr_decode_buffer_frame and the decode buffer as they
\* were; every decode after it yields silence; the first decode after a later
\* seek to a frame < num_frames emits the file from that frame.
C16_SeekPastEnd ==
    /\ [][(status = "open" /\ last'.op = "seek" /\ last'.arg >= num_frames)
            => /\ last'.res = "ok" /\ last'.seeks = 0
               /\ playhead_frame' = num_frames
               /\ UNCHANGED <<seek_delta, reset_decode_buffer,
                              curr_decode_buffer_frame, decode_buffer,
                              decode_buffer_len, reader>>]_vars
    /\ []((last.op = "decode" /\ run.op = "seek" /\ run.frame >= num_frames)
            => /\ last.res = "ok" /\ block = SilentBlock
               /\ last.fetches = 0 /\ playhead_frame = num_frames)
    /\ []((CleanDecode /\ run.op = "seek" /\ run.n = 1 /\ run.after_end
              /\ run.frame < num_frames)
            => \A i \in 1..block_frames :
                  run.frame + i - 1 < num_frames => block[i] = FrameAt(run.frame, i))

\* C17: every sample a decode copies into the block comes from a packet
\* decoded after the most recent successful seek (or from open when there
\* was none): the decode buffer as it was before a seek is never copied.
C17_NoStaleFrames ==
    last.op = "decode"
        => \A i \in 1..Len(last.copies) : last.copies[i].done => last.copies[i].fresh

\* C18: a seek(frame) with frame < num_frames that fails because the reader's
\* seek fails returns the error and leaves playhead_frame, seek_delta,
\* reset_decode_buffer and curr_decode_buffer_frame as they were.
C18_FailedSeekChangesNothing ==
    [][(status = "open" /\ last'.op = "seek" /\ last'.arg < num_frames
          /\ last'.seeks = 1 /\ last'.res = "err")
        => UNCHANGED <<playhead_frame, seek_delta, reset_decode_buffer,
                       curr_decode_buffer_frame>>]_vars

\* C19: in every state of a decoder curr_decode_buffer_frame <=
\* decode_buffer_len; every copy reads frames [from, from + n) that the
\* decode buffer holds and writes samples [to, to + n) of the block.
C19_CopiesStayInRange ==
    /\ status \in {"open", "fatal", "panicked"}
          => curr_decode_buffer_frame <= decode_buffer_len
    /\ last.op = "decode"
          => \A i \in 1..Len(last.copies) :
                LET c == last.copies[i]
                IN  /\ c.from <= c.len
                    /\ c.n >= 1
                    /\ c.from + c.n <= c.len
                    /\ c.from + c.n <= c.held
                    /\ c.to + c.n <= block_frames
====
